---- MODULE Spec2Model ----
(***************************************************************************)
(* Denu website: client-side language resolution and translation           *)
(* (language-manager.js) and environment-aware companion-application       *)
(* linking (environment-redirect.js).                                      *)
(*                                                                         *)
(* JavaScript strings are TLA+ strings; null and undefined are the         *)
(* sentinels Null and Undefined.  Persian catalog strings are written in   *)
(* an ASCII transliteration.                                               *)
(***************************************************************************)
EXTENDS Integers, Sequences, FiniteSets, TLC

VARIABLES
  search,           \* window.location.search: the query parameters read
  localStorage,     \* localStorage keys read or written
  navigator,        \* navigator.languages / navigator.language
  timeZone,         \* Intl.DateTimeFormat().resolvedOptions().timeZone
  languageManager,  \* window.languageManager
  documentLang,     \* document.documentElement.lang
  canonical,        \* <link rel="canonical">: presence and its lang parameter
  elements,         \* the [data-lang] elements of the document, in order
  location,         \* window.location: protocol, hostname, port
  globalOrigin,     \* window.FLUTTER_LOCAL_ORIGIN
  metaOrigin,       \* <meta name="flutter-local-origin"> content
  environmentRedirect, \* window.environmentRedirect
  outcome,          \* the last operation: its name, argument, result, exception
  anchors,          \* the a.flutter-link anchors of the page and of its fragments
  isSetup,          \* environmentRedirect.isSetup
  readyState,       \* document.readyState
  scripts,          \* the scripts of the page that have run
  domListeners,     \* DOMContentLoaded listeners, in registration order
  running,          \* listeners and continuations still to run in the current task
  partials,         \* fetch state of the navbar, drawer and footer fragments
  loaderFlags,      \* navLoaded, drawerLoaded, mobile-nav.js loads, select wiring
  timers,           \* pending 100 ms retries of translateLoadedPartials
  theme,            \* localStorage theme, data-theme attribute, OS colour scheme
  markup,           \* the [data-lang] elements in the HTML of each fragment
  dispatched        \* custom events dispatched on document, in order

pageVars == <<anchors, isSetup, readyState, scripts, domListeners, running, partials,
              loaderFlags, timers, theme, markup, dispatched>>

vars == <<search, localStorage, navigator, timeZone, languageManager,
          documentLang, canonical, elements, location, globalOrigin,
          metaOrigin, environmentRedirect, outcome, pageVars>>

lmVars == <<languageManager, documentLang, canonical, elements>>
envInputs == <<location, globalOrigin, metaOrigin>>
signals == <<search, navigator, timeZone>>

\* ------------------------------------------------------------------ bounds
\* languageChanged notifications raised by other scripts of the page
MaxLanguageChanged == 1
MaxElems == 2       \* marked elements in a document
MaxNodes == 3       \* child nodes of the marked elements of a document
MaxLanguages == 2   \* entries of navigator.languages

\* --------------------------------------------------------------- JS values
Null == "<null>"
Undefined == "<undefined>"
NativeFunction == "function Object() { [native code] }"

Truthy(v) == v \notin {Null, Undefined, ""}

RECURSIVE IndexOf(_, _, _)
\* first position >= i at which the one-character string c occurs in s, 0 if none
IndexOf(s, c, i) ==
  IF i > Len(s) THEN 0
  ELSE IF SubSeq(s, i, i) = c THEN i
  ELSE IndexOf(s, c, i + 1)

\* String.prototype.includes for a one-character string c
includes(s, c) == \E i \in 1..Len(s) : SubSeq(s, i, i) = c

startsWith(s, p) == Len(s) >= Len(p) /\ SubSeq(s, 1, Len(p)) = p

RECURSIVE split(_, _)
\* String.prototype.split on a one-character separator
split(s, c) ==
  LET i == IndexOf(s, c, 1)
  IN IF i = 0 THEN <<s>>
     ELSE <<SubSeq(s, 1, i - 1)>> \o split(SubSeq(s, i + 1, Len(s)), c)

RECURSIVE join(_, _)
join(parts, c) ==
  IF Len(parts) = 0 THEN ""
  ELSE IF Len(parts) = 1 THEN parts[1]
  ELSE parts[1] \o c \o join(Tail(parts), c)

RECURSIVE trim(_)
\* String.prototype.trim over the white space the documents contain
trim(s) ==
  IF Len(s) = 0 THEN s
  ELSE IF SubSeq(s, 1, 1) \in {" ", "\n", "\t"} THEN trim(SubSeq(s, 2, Len(s)))
  ELSE IF SubSeq(s, Len(s), Len(s)) \in {" ", "\n", "\t"} THEN trim(SubSeq(s, 1, Len(s) - 1))
  ELSE s

RECURSIVE SeqsUpTo(_, _)
\* all sequences over S of length at most n
SeqsUpTo(S, n) ==
  IF n = 0 THEN {<<>>}
  ELSE LET shorter == SeqsUpTo(S, n - 1)
       IN shorter \cup {Append(q, x) : q \in {r \in shorter : Len(r) = n - 1}, x \in S}

\* --------------------------------------------------------------- catalogs
SupportedLanguages == {"en", "fa"}
CatalogKeys == {"nav.home", "contact.form.email"}

loadTranslations ==
  [l \in SupportedLanguages |->
     IF l = "en"
     THEN [k \in CatalogKeys |->
             CASE k = "nav.home" -> "Home"
               [] k = "contact.form.email" -> "Email Address"]
     ELSE [k \in CatalogKeys |->
             CASE k = "nav.home" -> "khaneh"
               [] k = "contact.form.email" -> "adres-e email"]]

\* Property names every object literal inherits from Object.prototype:
\* obj[name] is a function, hence truthy, for each of them.
ObjectPrototypeNames == {"constructor"}

\* truthiness of this.translations[lang]
hasTranslations(lang) == lang \in SupportedLanguages \cup ObjectPrototypeNames

\* this.translations[lang][key]; evaluated only when translations[lang] is defined
lookup(lang, key) ==
  IF lang \in SupportedLanguages /\ key \in CatalogKeys THEN loadTranslations[lang][key]
  ELSE IF key \in ObjectPrototypeNames THEN NativeFunction
  ELSE Undefined

\* this.translations[lang][key] raises TypeError when translations[lang] is undefined
lookupThrows(lang) == ~hasTranslations(lang)

\* ------------------------------------------------------ language resolution
getLanguageFromURL ==
  IF Truthy(search.lang) /\ hasTranslations(search.lang) THEN search.lang ELSE Null

getStoredLanguage == localStorage.language

isIranLocation == timeZone = "Asia/Tehran"

primarySubtag(tag) == split(tag, "-")[1]

RECURSIVE firstSupported(_)
\* the loop over navigator.languages
firstSupported(tags) ==
  IF Len(tags) = 0 THEN Null
  ELSE IF hasTranslations(primarySubtag(Head(tags))) THEN primarySubtag(Head(tags))
  ELSE firstSupported(Tail(tags))

detectBrowserLanguage ==
  IF Truthy(getStoredLanguage) /\ hasTranslations(getStoredLanguage) THEN getStoredLanguage
  ELSE IF firstSupported(navigator.languages) # Null THEN firstSupported(navigator.languages)
  ELSE IF Truthy(navigator.language) /\ hasTranslations(primarySubtag(navigator.language))
    THEN primarySubtag(navigator.language)
  ELSE IF isIranLocation THEN "fa"
  ELSE "en"

\* the expression of the constructor: a || b || c
resolveLanguage ==
  IF Truthy(getLanguageFromURL) THEN getLanguageFromURL
  ELSE IF Truthy(getStoredLanguage) THEN getStoredLanguage
  ELSE detectBrowserLanguage

\* ------------------------------------------------------------ the document
TextNode(s) == [kind |-> "text", text |-> s]
Icon == [kind |-> "icon", text |-> ""]      \* <i class="fas ...">

isIcon(n) == n.kind = "icon"
\* node.nodeType === 3 && node.textContent.trim()
isContentText(n) == n.kind = "text" /\ Truthy(trim(n.text))
notContentText(n) == ~isContentText(n)

\* the email branch left out
mutant_isPlaceholderElement(el) ==
  \/ el.tagName = "INPUT" /\ el.type = "text"
  \/ el.tagName = "TEXTAREA"

isPlaceholderElement(el) ==
  \/ el.tagName = "INPUT" /\ el.type = "text"
  \/ el.tagName = "INPUT" /\ el.type = "email"
  \/ el.tagName = "TEXTAREA"

\* the old text nodes not removed before the translation is inserted
mutant_translateElement(el, translation) ==
  IF ~Truthy(translation) THEN el
  ELSE IF isPlaceholderElement(el) THEN [el EXCEPT !.placeholder = translation]
  ELSE
    LET icons == {i \in DOMAIN el.childNodes : isIcon(el.childNodes[i])}
    IN IF icons = {} THEN [el EXCEPT !.childNodes = <<TextNode(translation)>>]
       ELSE
         LET kept == el.childNodes
             first == CHOOSE i \in icons : \A j \in icons : i <= j
             last == CHOOSE i \in icons : \A j \in icons : j <= i
             at == IF first = 1 THEN last ELSE first - 1
         IN [el EXCEPT !.childNodes =
               SubSeq(kept, 1, at) \o <<TextNode(translation)>> \o SubSeq(kept, at + 1, Len(kept))]

\* the body of the forEach of translatePage for one element and its translation
translateElement(el, translation) ==
  IF ~Truthy(translation) THEN el
  ELSE IF isPlaceholderElement(el) THEN [el EXCEPT !.placeholder = translation]
  ELSE
    LET icons == {i \in DOMAIN el.childNodes : isIcon(el.childNodes[i])}
    IN IF icons = {} THEN [el EXCEPT !.childNodes = <<TextNode(translation)>>]
       ELSE
         LET kept == SelectSeq(el.childNodes, notContentText)
             pos == {i \in DOMAIN kept : isIcon(kept[i])}
             first == CHOOSE i \in pos : \A j \in pos : i <= j
             last == CHOOSE i \in pos : \A j \in pos : j <= i
             at == IF first = 1 THEN last ELSE first - 1
         IN [el EXCEPT !.childNodes =
               SubSeq(kept, 1, at) \o <<TextNode(translation)>> \o SubSeq(kept, at + 1, Len(kept))]

\* --------------------------------------------- LanguageManager operations
\* Each operation maps the part of the page the manager touches,
\* S = [currentLanguage, language (persisted), lang (html), canonical,
\*      elements, threw], to its value after the operation.

updatePageLanguage(S) == [S EXCEPT !.lang = S.currentLanguage]

updateMetaTags(S) ==
  IF S.canonical.present
  THEN [S EXCEPT !.canonical.lang = IF S.currentLanguage # "en" THEN S.currentLanguage ELSE Null]
  ELSE S

\* the pass writing the key when the catalog has no entry
mutant_translatePage(S) ==
  IF Len(S.elements) > 0 /\ lookupThrows(S.currentLanguage)
  THEN [S EXCEPT !.threw = TRUE]
  ELSE [S EXCEPT !.elements =
          [i \in DOMAIN S.elements |->
             translateElement(S.elements[i],
               IF Truthy(lookup(S.currentLanguage, S.elements[i].key))
               THEN lookup(S.currentLanguage, S.elements[i].key)
               ELSE S.elements[i].key)]]

translatePage(S) ==
  IF Len(S.elements) > 0 /\ lookupThrows(S.currentLanguage)
  THEN [S EXCEPT !.threw = TRUE]
  ELSE [S EXCEPT !.elements =
          [i \in DOMAIN S.elements |->
             translateElement(S.elements[i], lookup(S.currentLanguage, S.elements[i].key))]]

setLanguage(S, lang) ==
  IF ~hasTranslations(lang) THEN S
  ELSE translatePage(updateMetaTags(updatePageLanguage(
         [S EXCEPT !.currentLanguage = lang, !.language = lang])))

init(S) == updateMetaTags(updatePageLanguage(setLanguage(S, S.currentLanguage)))

getTranslation(key) ==
  IF lookupThrows(languageManager.currentLanguage) THEN Undefined
  ELSE IF Truthy(lookup(languageManager.currentLanguage, key))
    THEN lookup(languageManager.currentLanguage, key)
  ELSE key

\* the page as the manager sees it, before an operation
Page == [currentLanguage |-> languageManager.currentLanguage,
         language |-> localStorage.language,
         lang |-> documentLang,
         canonical |-> canonical,
         elements |-> elements,
         threw |-> FALSE]

\* the page after an operation, written back
Commit(S, op, arg, ret) ==
  /\ languageManager' = [constructed |-> TRUE, currentLanguage |-> S.currentLanguage]
  /\ localStorage' = [localStorage EXCEPT !.language = S.language]
  /\ documentLang' = S.lang
  /\ canonical' = S.canonical
  /\ elements' = S.elements
  /\ outcome' = [op |-> op, arg |-> arg, ret |-> ret, threw |-> S.threw]

\* new LanguageManager(), from the bootstrap listeners
Construct ==
  /\ running = <<>>
  /\ Commit(init([Page EXCEPT !.currentLanguage = resolveLanguage]),
            "constructor", Null, Null)
  /\ UNCHANGED <<signals, envInputs, environmentRedirect, pageVars>>

LanguageCodes == SupportedLanguages \cup ObjectPrototypeNames \cup {"de"}

\* window.languageManager.setLanguage(lang)
SetLanguage(lang) ==
  /\ running = <<>>
  /\ languageManager.constructed
  /\ Commit(setLanguage(Page, lang), "setLanguage", lang, Null)
  /\ UNCHANGED <<signals, envInputs, environmentRedirect, pageVars>>

\* window.languageManager.translatePage()
TranslatePage ==
  /\ running = <<>>
  /\ languageManager.constructed
  /\ Commit(translatePage(Page), "translatePage", Null, Null)
  /\ UNCHANGED <<signals, envInputs, environmentRedirect, pageVars>>

LookupKeys == CatalogKeys \cup {"missing.key"}

\* window.languageManager.getTranslation(key)
GetTranslation(key) ==
  /\ running = <<>>
  /\ languageManager.constructed
  /\ outcome' = [op |-> "getTranslation", arg |-> key, ret |-> getTranslation(key),
                 threw |-> lookupThrows(languageManager.currentLanguage)]
  /\ UNCHANGED <<signals, localStorage, lmVars, envInputs, environmentRedirect, pageVars>>

NextLM ==
  \/ Construct
  \/ \E lang \in LanguageCodes : SetLanguage(lang)
  \/ TranslatePage
  \/ \E key \in LookupKeys : GetTranslation(key)

\* ----------------------------------------------------------- initial pages
ElementKeys == {"nav.home", "missing.key", "constructor"}

FormControls ==
  {[tagName |-> "INPUT", type |-> "text"], [tagName |-> "INPUT", type |-> "email"],
   [tagName |-> "INPUT", type |-> "submit"], [tagName |-> "TEXTAREA", type |-> "textarea"]}

ChildNodes == {Icon, TextNode("Old"), TextNode(" ")}

\* the marked elements with at most n child nodes
MarkedElements(n) ==
  {[tagName |-> c.tagName, type |-> c.type, key |-> k, placeholder |-> "Old",
    childNodes |-> <<>>] : c \in FormControls, k \in ElementKeys}
  \cup
  {[tagName |-> "A", type |-> "", key |-> k, placeholder |-> "", childNodes |-> ch] :
     k \in ElementKeys, ch \in SeqsUpTo(ChildNodes, n)}

RECURSIVE Documents(_, _)
\* the documents of at most m marked elements having at most n child nodes in all
Documents(m, n) ==
  IF m = 0 THEN {<<>>}
  ELSE {<<>>} \cup
       UNION {{<<e>> \o d : d \in Documents(m - 1, n - Len(e.childNodes))} :
                e \in MarkedElements(n)}

NoEnvironment ==
  /\ location = [protocol |-> "https:", hostname |-> "denu.dev", port |-> ""]
  /\ globalOrigin = Null
  /\ metaOrigin = Null
  /\ environmentRedirect = [constructed |-> FALSE, currentEnvironment |-> Null,
                            rootDomain |-> Null]

\* a page without marked anchors, fragments or scripts under way
NoPage ==
  /\ anchors = <<>>
  /\ isSetup = FALSE
  /\ readyState = "interactive"
  /\ scripts = {}
  /\ domListeners = <<>>
  /\ running = <<>>
  /\ partials = [navbar |-> "idle", drawer |-> "idle", footer |-> "idle"]
  /\ loaderFlags = [navLoaded |-> FALSE, drawerLoaded |-> FALSE, mobileNavLoads |-> 0,
                    themeSelect |-> FALSE, languageSelect |-> FALSE]
  /\ timers = 0
  /\ theme = [stored |-> Null, attr |-> Null, prefersDark |-> FALSE]
  /\ markup = [navbar |-> <<>>, drawer |-> <<>>, footer |-> <<>>]
  /\ dispatched = <<>>

NotStarted ==
  /\ languageManager = [constructed |-> FALSE, currentLanguage |-> Null]
  /\ outcome = [op |-> Null, arg |-> Null, ret |-> Null, threw |-> FALSE]

\* Pages of every shape, under the signals that decide whether the resolved
\* language has a catalog.
InitTranslate ==
  /\ search = [lang |-> Null, flutter_origin |-> Null, flutter_port |-> Null]
  /\ localStorage \in [language : {Null, "de"}, flutter_local_origin : {Null}]
  /\ navigator = [languages |-> <<"en-US">>, language |-> "en-US"]
  /\ timeZone = "Europe/Berlin"
  /\ documentLang = "en"
  /\ canonical = [present |-> TRUE, lang |-> Null]
  /\ elements \in Documents(MaxElems, MaxNodes)
  /\ NotStarted
  /\ NoPage
  /\ NoEnvironment

Spec == InitTranslate /\ [][NextLM]_vars

LanguageTags == {"fa-IR", "en-US", "de-DE"}

\* Every combination of the language signals, over small pages.
InitResolve ==
  /\ search \in [lang : {Null, "", "en", "fa", "de", "constructor"},
                 flutter_origin : {Null}, flutter_port : {Null}]
  /\ localStorage \in [language : {Null, "en", "fa", "de"}, flutter_local_origin : {Null}]
  /\ navigator \in [languages : SeqsUpTo(LanguageTags, MaxLanguages),
                    language : {Null, "fa", "de-DE"}]
  /\ timeZone \in {"Asia/Tehran", "Europe/Berlin"}
  /\ documentLang = "en"
  /\ canonical \in {[present |-> FALSE, lang |-> Null], [present |-> TRUE, lang |-> Null],
                    [present |-> TRUE, lang |-> "fa"]}
  /\ elements \in Documents(1, 0)
  /\ NotStarted
  /\ NoPage
  /\ NoEnvironment

SpecResolve == InitResolve /\ [][NextLM]_vars

\* ------------------------------------------------------ EnvironmentRedirect
RECURSIVE allDigits(_)
\* /^\d+$/
allDigits(s) ==
  IF Len(s) = 0 THEN FALSE
  ELSE /\ SubSeq(s, 1, 1) \in {"0", "1", "2", "3", "4", "5", "6", "7", "8", "9"}
       /\ (Len(s) = 1 \/ allDigits(SubSeq(s, 2, Len(s))))

\* /^\d+\.\d+\.\d+\.\d+$/
isDottedQuad(host) ==
  LET parts == split(host, ".")
  IN Len(parts) = 4 /\ \A i \in 1..4 : allDigits(parts[i])

\* the prefixes matched without their dot
mutant_detectEnvironment(host) ==
  IF host = "localhost" \/ host = "127.0.0.1" THEN "local"
  ELSE IF startsWith(host, "dev") THEN "dev"
  ELSE IF startsWith(host, "qa") THEN "qa"
  ELSE IF startsWith(host, "uat") THEN "uat"
  ELSE "prod"

detectEnvironment(host) ==
  IF host = "localhost" \/ host = "127.0.0.1" THEN "local"
  ELSE IF startsWith(host, "dev.") THEN "dev"
  ELSE IF startsWith(host, "qa.") THEN "qa"
  ELSE IF startsWith(host, "uat.") THEN "uat"
  ELSE "prod"

getRootDomain(host) ==
  LET parts == split(host, ".")
  IN IF host = "localhost" \/ isDottedQuad(host) THEN host
     ELSE IF Len(parts) <= 2 THEN host
     ELSE join(SubSeq(parts, Len(parts) - 1, Len(parts)), ".")

\* window.location.host
locationHost ==
  IF location.port = "" THEN location.hostname
  ELSE location.hostname \o ":" \o location.port

WebServerPorts == {"80", "443", "8080", "8081", "3000", "5000", "5500"}

\* the meta tag consulted before localStorage
mutant_getLocalOverrideOriginSync ==
  IF Truthy(globalOrigin) THEN globalOrigin
  ELSE IF Truthy(metaOrigin) THEN metaOrigin
  ELSE IF Truthy(localStorage.flutter_local_origin) THEN localStorage.flutter_local_origin
  ELSE IF Truthy(search.flutter_origin) THEN search.flutter_origin
  ELSE IF Truthy(search.flutter_port)
    THEN location.protocol \o "//localhost:" \o search.flutter_port
  ELSE Null

getLocalOverrideOriginSync ==
  IF Truthy(globalOrigin) THEN globalOrigin
  ELSE IF Truthy(localStorage.flutter_local_origin) THEN localStorage.flutter_local_origin
  ELSE IF Truthy(metaOrigin) THEN metaOrigin
  ELSE IF Truthy(search.flutter_origin) THEN search.flutter_origin
  ELSE IF Truthy(search.flutter_port)
    THEN location.protocol \o "//localhost:" \o search.flutter_port
  ELSE Null

\* the fallback built from hostname, dropping the port
mutant_getFlutterBase ==
  LET env == environmentRedirect.currentEnvironment
      root == environmentRedirect.rootDomain
  IN IF env = "local"
     THEN IF Truthy(getLocalOverrideOriginSync) THEN getLocalOverrideOriginSync
          ELSE IF Truthy(location.port) /\ location.port \notin WebServerPorts
            THEN location.protocol \o "//" \o locationHost
          ELSE location.protocol \o "//" \o location.hostname
     ELSE "https://" \o (IF env = "prod" THEN "" ELSE env \o ".") \o "app." \o root

getFlutterBase ==
  LET env == environmentRedirect.currentEnvironment
      root == environmentRedirect.rootDomain
  IN IF env = "local"
     THEN IF Truthy(getLocalOverrideOriginSync) THEN getLocalOverrideOriginSync
          ELSE IF Truthy(location.port) /\ location.port \notin WebServerPorts
            THEN location.protocol \o "//" \o locationHost
          ELSE location.protocol \o "//" \o locationHost
     ELSE "https://" \o (IF env = "prod" THEN "" ELSE env \o ".") \o "app." \o root

getCurrentLanguage ==
  IF languageManager.constructed /\ Truthy(languageManager.currentLanguage)
    THEN languageManager.currentLanguage
  ELSE IF Truthy(search.lang) THEN search.lang
  ELSE IF Truthy(localStorage.language) THEN localStorage.language
  ELSE "en"

\* the separator always "?"
mutant_getFlutterUrl(routePath) ==
  LET base == getFlutterBase
      path == IF Truthy(routePath)
              THEN (IF startsWith(routePath, "/") THEN routePath ELSE "/" \o routePath)
              ELSE "/"
      url == base \o path
      lang == getCurrentLanguage
  IN IF Truthy(lang) /\ lang # "en" THEN url \o "?lang=" \o lang ELSE url

getFlutterUrl(routePath) ==
  LET base == getFlutterBase
      path == IF Truthy(routePath)
              THEN (IF startsWith(routePath, "/") THEN routePath ELSE "/" \o routePath)
              ELSE "/"
      url == base \o path
      lang == getCurrentLanguage
  IN IF Truthy(lang) /\ lang # "en"
     THEN url \o (IF includes(url, "?") THEN "&" ELSE "?") \o "lang=" \o lang
     ELSE url

\* ------------------------------------------------------------ marked anchors
\* An anchor is [where, inDoc, flutterPath, href, origHref, target, rel, setup,
\* handlers]: the fragment (or the page) that carries it, whether it is in the
\* document, its data-flutter-path and href attributes (origHref: the href it
\* was written with), target, rel as a list of tokens, the
\* data-env-redirect-setup marker and the number of click listeners attached.

RECURSIVE firstOf(_, _, _)
\* first position >= i of s holding one of chars, Len(s) + 1 if none
firstOf(s, chars, i) ==
  IF i > Len(s) THEN i
  ELSE IF SubSeq(s, i, i) \in chars THEN i
  ELSE firstOf(s, chars, i + 1)

\* the components of an absolute URL scheme://hostname[:port][rest]
parseUrl(url) ==
  LET slash == IndexOf(url, "/", 1)
      authEnd == firstOf(url, {"/", "?", "#"}, slash + 2)
      authority == SubSeq(url, slash + 2, authEnd - 1)
      colon == IndexOf(authority, ":", 1)
  IN [protocol |-> SubSeq(url, 1, slash - 1),
      hostname |-> IF colon = 0 THEN authority ELSE SubSeq(authority, 1, colon - 1),
      port |-> IF colon = 0 THEN "" ELSE SubSeq(authority, colon + 1, Len(authority)),
      rest |-> SubSeq(url, authEnd, Len(url))]

\* link.hostname
linkHostname(a) == parseUrl(a.href).hostname

\* link.href: the serialised URL, the scheme's default port dropped
linkHref(a) ==
  LET u == parseUrl(a.href)
      port == IF \/ u.protocol = "http:" /\ u.port = "80"
                 \/ u.protocol = "https:" /\ u.port = "443"
              THEN "" ELSE u.port
  IN u.protocol \o "//" \o u.hostname \o (IF port = "" THEN "" ELSE ":" \o port)
       \o (IF u.rest = "" THEN "/" ELSE u.rest)

\* link.getAttribute('data-flutter-path') || link.getAttribute('href') || '/'
routePathOf(a) ==
  IF Truthy(a.flutterPath) THEN a.flutterPath
  ELSE IF Truthy(a.href) THEN a.href
  ELSE "/"

\* the destination compared with the page by host, port included
mutant_rewriteLink(a) ==
  LET rewritten == [a EXCEPT !.href = getFlutterUrl(routePathOf(a))]
      u == parseUrl(rewritten.href)
      external == u.hostname \o ":" \o u.port # location.hostname \o ":" \o location.port
  IN [rewritten EXCEPT !.target = IF external THEN "_blank" ELSE @,
                       !.rel = IF external THEN Append(@, "noopener") ELSE @,
                       !.handlers = @ + 1,
                       !.setup = TRUE]

\* the body of the forEach of setupFlutterLinks
rewriteLink(a) ==
  LET rewritten == [a EXCEPT !.href = getFlutterUrl(routePathOf(a))]
      external == linkHostname(rewritten) # location.hostname
  IN [rewritten EXCEPT !.target = IF external THEN "_blank" ELSE @,
                       !.rel = IF external THEN Append(@, "noopener") ELSE @,
                       !.handlers = @ + 1,
                       !.setup = TRUE]

\* a.flutter-link:not([data-env-redirect-setup])
unprocessed(A) == {i \in DOMAIN A : A[i].inDoc /\ ~A[i].setup}
\* a.flutter-link[data-env-redirect-setup]
processed(A) == {i \in DOMAIN A : A[i].inDoc /\ A[i].setup}

\* The link operations map L = [anchors, isSetup] to its value afterwards.
\* the scan not held back by isSetup
mutant_setupFlutterLinks(L) ==
  [anchors |-> [i \in DOMAIN L.anchors |->
                  IF i \in unprocessed(L.anchors) THEN rewriteLink(L.anchors[i])
                  ELSE L.anchors[i]],
   isSetup |-> L.isSetup \/ unprocessed(L.anchors) # {}]

setupFlutterLinks(L) ==
  IF L.isSetup THEN L
  ELSE [anchors |-> [i \in DOMAIN L.anchors |->
                       IF i \in unprocessed(L.anchors) THEN rewriteLink(L.anchors[i])
                       ELSE L.anchors[i]],
        isSetup |-> unprocessed(L.anchors) # {}]

refreshFlutterLinks(L) ==
  [L EXCEPT !.anchors =
     [i \in DOMAIN L.anchors |->
        IF i \in processed(L.anchors)
        THEN [L.anchors[i] EXCEPT !.href = getFlutterUrl(routePathOf(L.anchors[i]))]
        ELSE L.anchors[i]]]

\* this.isSetup = false; this.setupFlutterLinks(); this.refreshFlutterLinks();
rescan(L) == refreshFlutterLinks(setupFlutterLinks([L EXCEPT !.isSetup = FALSE]))

\* the markers left in place
mutant_onPartialsLoaded(L) == rescan(L)

\* the partialsLoaded listener
onPartialsLoaded(L) ==
  rescan([L EXCEPT !.anchors =
            [i \in DOMAIN L.anchors |->
               IF i \in processed(L.anchors) THEN [L.anchors[i] EXCEPT !.setup = FALSE]
               ELSE L.anchors[i]]])

Links == [anchors |-> anchors, isSetup |-> isSetup]

\* The scripts of the page are script elements of the document, classic or
\* deferred: each runs once, before DOMContentLoaded is dispatched.
Runs(script) ==
  /\ running = <<>>
  /\ script \notin scripts
  /\ readyState # "complete"
  /\ scripts' = scripts \cup {script}

Done(op) == outcome' = [op |-> op, arg |-> Null, ret |-> Null, threw |-> FALSE]

\* new EnvironmentRedirect(): the fields and the listeners; the scans of the
\* constructor follow in EnvSetup, within the same task
ConstructEnv ==
  /\ Runs("environment-redirect.js")
  /\ environmentRedirect' = [constructed |-> TRUE,
                             currentEnvironment |-> detectEnvironment(location.hostname),
                             rootDomain |-> getRootDomain(location.hostname)]
  /\ isSetup' = FALSE
  /\ domListeners' = Append(domListeners, "environmentRedirect")
  /\ running' = <<"EnvSetup">>
  /\ Done("EnvironmentRedirect")
  /\ UNCHANGED <<signals, localStorage, lmVars, envInputs, anchors, readyState, partials,
                 loaderFlags, timers, theme, dispatched, markup>>

\* the rest of the constructor: the scan of setupListeners when the document
\* is no longer loading, then setupFlutterLinks()
EnvSetup ==
  /\ running # <<>> /\ Head(running) = "EnvSetup"
  /\ LET L == setupFlutterLinks(IF readyState # "loading" THEN rescan(Links) ELSE Links)
     IN anchors' = L.anchors /\ isSetup' = L.isSetup
  /\ running' = Tail(running)
  /\ Done("setupListeners")
  /\ UNCHANGED <<signals, localStorage, lmVars, envInputs, environmentRedirect, readyState,
                 scripts, domListeners, partials, loaderFlags, timers, theme,
                 dispatched, markup>>

\* the listeners of setupListeners, run when their event is dispatched
EnvListener(event) ==
  /\ running # <<>> /\ Head(running) = event
  /\ LET L == CASE event = "languageChanged" -> refreshFlutterLinks(Links)
                [] event = "partialsLoaded" -> onPartialsLoaded(Links)
                [] event = "DOMContentLoaded:environmentRedirect" -> rescan(Links)
     IN anchors' = L.anchors /\ isSetup' = L.isSetup
  /\ running' = Tail(running)
  /\ Done(event)
  /\ UNCHANGED <<signals, localStorage, lmVars, envInputs, environmentRedirect, readyState,
                 scripts, domListeners, partials, loaderFlags, timers, theme,
                 dispatched, markup>>

EnvEvents == {"languageChanged", "partialsLoaded", "DOMContentLoaded:environmentRedirect"}

\* window.environmentRedirect.setupFlutterLinks()
SetupFlutterLinks ==
  /\ running = <<>>
  /\ environmentRedirect.constructed
  /\ LET L == setupFlutterLinks(Links)
     IN anchors' = L.anchors /\ isSetup' = L.isSetup
  /\ Done("setupFlutterLinks")
  /\ UNCHANGED <<signals, localStorage, lmVars, envInputs, environmentRedirect, readyState,
                 scripts, domListeners, running, partials, loaderFlags, timers, theme, dispatched,
                 markup>>

\* an override, when there is one, returned in every environment
mutant_GetFlutterBase ==
  /\ running = <<>>
  /\ environmentRedirect.constructed
  /\ outcome' = [op |-> "getFlutterBase", arg |-> Null,
                 ret |-> IF Truthy(getLocalOverrideOriginSync)
                         THEN getLocalOverrideOriginSync ELSE getFlutterBase,
                 threw |-> FALSE]
  /\ UNCHANGED <<signals, localStorage, lmVars, envInputs, environmentRedirect, pageVars>>

\* window.environmentRedirect.getFlutterBase()
GetFlutterBase ==
  /\ running = <<>>
  /\ environmentRedirect.constructed
  /\ outcome' = [op |-> "getFlutterBase", arg |-> Null, ret |-> getFlutterBase, threw |-> FALSE]
  /\ UNCHANGED <<signals, localStorage, lmVars, envInputs, environmentRedirect, pageVars>>

RoutePaths == {Null, "", "/discover", "discover", "/places?near=me"}

\* window.environmentRedirect.getFlutterUrl(routePath)
GetFlutterUrl(routePath) ==
  /\ running = <<>>
  /\ environmentRedirect.constructed
  /\ outcome' = [op |-> "getFlutterUrl", arg |-> routePath, ret |-> getFlutterUrl(routePath),
                 threw |-> FALSE]
  /\ UNCHANGED <<signals, localStorage, lmVars, envInputs, environmentRedirect, pageVars>>

NextEnv ==
  \/ ConstructEnv
  \/ EnvSetup
  \/ GetFlutterBase
  \/ \E routePath \in RoutePaths : GetFlutterUrl(routePath)
  \/ Construct
  \/ \E lang \in LanguageCodes : SetLanguage(lang)

LocalHostnames == {"localhost", "127.0.0.1"}
DeployedHostnames ==
  {"denu.dev", "www.denu.dev", "dev.denu.dev", "qa.denu.dev", "uat.denu.dev",
   "dev.www.denu.dev", "developer.denu.dev", "uat.denu.co.uk", "dev.dev", "intranet",
   "192.168.1.5", "127.0.0.2"}

NoUnit ==
  /\ environmentRedirect = [constructed |-> FALSE, currentEnvironment |-> Null,
                            rootDomain |-> Null]
  /\ NotStarted
  /\ NoPage
  /\ navigator = [languages |-> <<"en-US">>, language |-> "en-US"]
  /\ timeZone = "Europe/Berlin"
  /\ documentLang = "en"
  /\ canonical = [present |-> FALSE, lang |-> Null]
  /\ elements = <<>>

\* A local page under every subset of the overrides, or a deployed page.
InitEnv ==
  /\ NoUnit
  /\ \/ /\ location \in [protocol : {"http:", "https:"}, hostname : LocalHostnames,
                         port : {"", "3000", "8080", "55425"}]
        /\ globalOrigin \in {Null, "http://localhost:56899"}
        /\ metaOrigin \in {Null, "", "http://localhost:4000"}
        /\ search \in [lang : {Null, "fa"},
                       flutter_origin : {Null, "http://127.0.0.1:7357"},
                       flutter_port : {Null, "9000"}]
        /\ localStorage \in [language : {Null, "fa"},
                             flutter_local_origin : {Null, "http://localhost:55425"}]
     \/ /\ location \in [protocol : {"https:"}, hostname : DeployedHostnames,
                         port : {"", "8080"}]
        /\ \/ /\ globalOrigin = Null
              /\ metaOrigin = Null
              /\ search \in [lang : {Null, "fa"}, flutter_origin : {Null},
                             flutter_port : {Null}]
              /\ localStorage \in [language : {Null, "en", "fa"},
                                   flutter_local_origin : {Null}]
           \/ /\ globalOrigin = "http://localhost:56899"
              /\ metaOrigin = "http://localhost:4000"
              /\ search \in [lang : {Null, "fa"}, flutter_origin : {"http://127.0.0.1:7357"},
                             flutter_port : {"9000"}]
              /\ localStorage \in [language : {Null, "en", "fa"},
                                   flutter_local_origin : {"http://localhost:55425"}]

SpecEnv == InitEnv /\ [][NextEnv]_vars

\* ------------------------------------------------------------------ the page
\* ---- scripts and document events
\* the end of parsing: deferred scripts run before DOMContentLoaded
ParseEnd ==
  /\ running = <<>>
  /\ readyState = "loading"
  /\ readyState' = "interactive"
  /\ Done("readystatechange")
  /\ UNCHANGED <<signals, localStorage, lmVars, envInputs, environmentRedirect, anchors,
                 isSetup, scripts, domListeners, running, partials, loaderFlags, timers,
                 theme, dispatched, markup>>

\* DOMContentLoaded: its listeners run in the order they were added
DOMContentLoaded ==
  /\ running = <<>>
  /\ readyState = "interactive"
  /\ readyState' = "complete"
  /\ running' = [i \in DOMAIN domListeners |-> "DOMContentLoaded:" \o domListeners[i]]
  /\ Done("DOMContentLoaded")
  /\ UNCHANGED <<signals, localStorage, lmVars, envInputs, environmentRedirect, anchors,
                 isSetup, scripts, domListeners, partials, loaderFlags, timers, theme,
                 dispatched, markup>>

\* language-manager.js: the two registrations of the bootstrap
LanguageManagerScript ==
  /\ Runs("language-manager.js")
  /\ domListeners' = domListeners \o
       (IF readyState = "loading" THEN <<"languageManager", "languageManager">>
        ELSE <<"languageManager">>)
  /\ running' = IF readyState = "loading" THEN <<>> ELSE <<"LanguageManager">>
  /\ Done("language-manager.js")
  /\ UNCHANGED <<signals, localStorage, lmVars, envInputs, environmentRedirect, anchors,
                 isSetup, readyState, partials, loaderFlags, timers, theme,
                 dispatched, markup>>

\* window.languageManager = new LanguageManager(), at the bootstrap or from a listener
BootLanguageManager ==
  /\ running # <<>>
  /\ Head(running) \in {"LanguageManager", "DOMContentLoaded:languageManager"}
  /\ Commit(init([Page EXCEPT !.currentLanguage = resolveLanguage]),
            "constructor", Null, Null)
  /\ running' = Tail(running)
  /\ UNCHANGED <<signals, envInputs, environmentRedirect, anchors, isSetup, readyState,
                 scripts, domListeners, partials, loaderFlags, timers, theme,
                 dispatched, markup>>

\* the local configuration script: window.FLUTTER_LOCAL_ORIGIN = 'http://localhost:56899'
LocalConfigScript ==
  /\ Runs("flutter-local-config.js")
  /\ location.hostname \in {"localhost", "127.0.0.1"}
  /\ globalOrigin' = "http://localhost:56899"
  /\ Done("flutter-local-config.js")
  /\ UNCHANGED <<signals, localStorage, lmVars, location, metaOrigin, environmentRedirect,
                 anchors, isSetup, readyState, domListeners, running, partials, loaderFlags,
                 timers, theme, dispatched, markup>>

\* ---- the theme
\* "system" written to the attribute as it is
mutant_applyTheme(t, prefersDark) == t

\* applyTheme(theme): the value of data-theme afterwards
applyTheme(t, prefersDark) ==
  IF t = "system" THEN (IF prefersDark THEN "dark" ELSE "light") ELSE t

\* a change of the OS colour scheme, and the listener of the initialisation
OSSchemeChange ==
  /\ running = <<>>
  /\ theme' = [theme EXCEPT
                 !.prefersDark = ~@,
                 !.attr = IF "partials-loader.js" \in scripts /\ ~Truthy(theme.stored)
                          THEN applyTheme("system", ~theme.prefersDark)
                          ELSE @]
  /\ Done("prefers-color-scheme")
  /\ UNCHANGED <<signals, localStorage, lmVars, envInputs, environmentRedirect, anchors,
                 isSetup, readyState, scripts, domListeners, running, partials, loaderFlags,
                 timers, dispatched, markup>>

ThemeOptions == {"system", "light", "dark"}

\* the change listener of #footerThemeSelect
SelectTheme(val) ==
  /\ running = <<>>
  /\ loaderFlags.themeSelect
  /\ theme' = [theme EXCEPT
                 !.stored = IF val = "system" THEN Null ELSE val,
                 !.attr = IF val = "system"
                          THEN (IF theme.prefersDark THEN "dark" ELSE "light")
                          ELSE val]
  /\ outcome' = [op |-> "footerThemeSelect", arg |-> val, ret |-> Null, threw |-> FALSE]
  /\ UNCHANGED <<signals, localStorage, lmVars, envInputs, environmentRedirect, anchors,
                 isSetup, readyState, scripts, domListeners, running, partials, loaderFlags,
                 timers, dispatched, markup>>

\* ---- the fragment loader
\* mobile-nav.js requested whatever the flags
mutant_tryInitMobileNav(F) == [F EXCEPT !.mobileNavLoads = @ + 1]

\* tryInitMobileNav(): the number of times mobile-nav.js was requested
tryInitMobileNav(F) ==
  IF F.navLoaded /\ F.drawerLoaded THEN [F EXCEPT !.mobileNavLoads = @ + 1] ELSE F

\* translateLoadedPartials(): the page afterwards
mutant_translateLoadedPartials(S) == S

translateLoadedPartials(S) ==
  IF languageManager.constructed THEN translatePage(S) ELSE S

\* the page written back, the manager as it was
CommitPage(S) ==
  /\ languageManager' = languageManager
  /\ localStorage' = [localStorage EXCEPT !.language = S.language]
  /\ documentLang' = S.lang
  /\ canonical' = S.canonical
  /\ elements' = S.elements

\* element.innerHTML = html: the marked elements of the fragment enter the document
injected(S, id) == [S EXCEPT !.elements = @ \o markup[id]]

\* element.innerHTML = html: the anchors of the fragment enter the document
inject(A, id) == [i \in DOMAIN A |-> IF A[i].where = id THEN [A[i] EXCEPT !.inDoc = TRUE]
                                   ELSE A[i]]

\* partials-loader.js: the theme is applied and the three fetches start
LoaderScript ==
  /\ Runs("partials-loader.js")
  /\ theme' = [theme EXCEPT !.attr = applyTheme(IF Truthy(theme.stored) THEN theme.stored
                                               ELSE "system", theme.prefersDark)]
  /\ partials' = [navbar |-> "pending",
                  drawer |-> IF partials.drawer = "absent" THEN "absent" ELSE "pending",
                  footer |-> "pending"]
  /\ loaderFlags' = tryInitMobileNav([loaderFlags EXCEPT
                                        !.drawerLoaded = partials.drawer = "absent"])
  /\ Done("partials-loader.js")
  /\ UNCHANGED <<signals, localStorage, lmVars, envInputs, environmentRedirect, anchors,
                 isSetup, readyState, domListeners, running, timers, dispatched,
                 markup>>

Fragments == {"navbar", "drawer", "footer"}

\* a fetch that fails: the catch of loadPartial
FetchFailed(id) ==
  /\ running = <<>>
  /\ partials[id] = "pending"
  /\ partials' = [partials EXCEPT ![id] = "failed"]
  /\ outcome' = [op |-> "fetch", arg |-> id, ret |-> Null, threw |-> TRUE]
  /\ UNCHANGED <<signals, localStorage, lmVars, envInputs, environmentRedirect, anchors,
                 isSetup, readyState, scripts, domListeners, running, loaderFlags, timers,
                 theme, dispatched, markup>>

\* the navbar and the drawer arrive
FragmentLoaded(id) ==
  /\ running = <<>>
  /\ id \in {"navbar", "drawer"}
  /\ partials[id] = "pending"
  /\ partials' = [partials EXCEPT ![id] = "loaded"]
  /\ anchors' = inject(anchors, id)
  /\ loaderFlags' = tryInitMobileNav(IF id = "navbar"
                                     THEN [loaderFlags EXCEPT !.navLoaded = TRUE]
                                     ELSE [loaderFlags EXCEPT !.drawerLoaded = TRUE])
  /\ CommitPage(translateLoadedPartials(injected(Page, id)))
  /\ timers' = IF languageManager.constructed THEN timers ELSE timers + 1
  /\ outcome' = [op |-> "loadPartial", arg |-> id, ret |-> Null,
                 threw |-> translateLoadedPartials(injected(Page, id)).threw]
  /\ UNCHANGED <<signals, envInputs, environmentRedirect, isSetup, readyState, scripts,
                 domListeners, running, theme, dispatched, markup>>

\* the footer arrives: the selectors are wired, the page is translated and
\* partialsLoaded is dispatched, unless the translation throws
FooterLoaded ==
  /\ running = <<>>
  /\ partials.footer = "pending"
  /\ partials' = [partials EXCEPT !.footer = "loaded"]
  /\ anchors' = inject(anchors, "footer")
  /\ loaderFlags' = [loaderFlags EXCEPT !.themeSelect = TRUE,
                                        !.languageSelect = languageManager.constructed]
  /\ CommitPage(translateLoadedPartials(injected(Page, "footer")))
  /\ timers' = IF languageManager.constructed THEN timers ELSE timers + 1
  /\ IF translateLoadedPartials(injected(Page, "footer")).threw
     THEN UNCHANGED <<dispatched, running>>
     ELSE /\ dispatched' = Append(dispatched, "partialsLoaded")
          /\ running' = IF environmentRedirect.constructed THEN <<"partialsLoaded">>
                        ELSE <<>>
  /\ outcome' = [op |-> "loadPartial", arg |-> "footer", ret |-> Null,
                 threw |-> translateLoadedPartials(injected(Page, "footer")).threw]
  /\ UNCHANGED <<signals, envInputs, environmentRedirect, isSetup, readyState, scripts,
                 domListeners, theme, markup>>

\* the retry of translateLoadedPartials, 100 ms later
RetryTranslate ==
  /\ running = <<>>
  /\ timers > 0
  /\ timers' = timers - 1
  /\ CommitPage(translateLoadedPartials(Page))
  /\ outcome' = [op |-> "setTimeout", arg |-> Null, ret |-> Null,
                 threw |-> translateLoadedPartials(Page).threw]
  /\ UNCHANGED <<signals, envInputs, environmentRedirect, anchors, isSetup, readyState,
                 scripts, domListeners, running, partials, loaderFlags, theme,
                 dispatched, markup>>

\* the user changes #footerLanguageSelect: the change listener runs if the
\* footer callback attached it
SelectLanguage(lang) ==
  /\ running = <<>>
  /\ partials.footer = "loaded"
  /\ IF loaderFlags.languageSelect
     THEN Commit(setLanguage(Page, lang), "setLanguage", lang, Null)
     ELSE /\ outcome' = [op |-> "change", arg |-> lang, ret |-> Null, threw |-> FALSE]
          /\ UNCHANGED <<localStorage, lmVars>>
  /\ UNCHANGED <<signals, envInputs, environmentRedirect, pageVars>>

\* ---- notifications and clicks
Count(q, x) == Cardinality({i \in DOMAIN q : q[i] = x})

\* document.dispatchEvent(new CustomEvent('languageChanged')), by any script of
\* the page, once the resolver listens
DispatchLanguageChanged ==
  /\ running = <<>>
  /\ environmentRedirect.constructed
  /\ Count(dispatched, "languageChanged") < MaxLanguageChanged
  /\ dispatched' = Append(dispatched, "languageChanged")
  /\ running' = <<"languageChanged">>
  /\ Done("dispatchEvent")
  /\ UNCHANGED <<signals, localStorage, lmVars, envInputs, environmentRedirect, anchors,
                 isSetup, readyState, scripts, domListeners, partials, loaderFlags, timers,
                 theme, markup>>

NewPath == "/places"

\* a script of the page changes the data-flutter-path of a processed anchor
SetFlutterPath(i) ==
  /\ running = <<>>
  /\ i \in DOMAIN anchors
  /\ anchors[i].inDoc /\ anchors[i].setup
  /\ Truthy(anchors[i].flutterPath) /\ anchors[i].flutterPath # NewPath
  /\ anchors' = [anchors EXCEPT ![i].flutterPath = NewPath]
  /\ Done("setAttribute")
  /\ UNCHANGED <<signals, localStorage, lmVars, envInputs, environmentRedirect, isSetup,
                 readyState, scripts, domListeners, running, partials, loaderFlags, timers,
                 theme, dispatched, markup>>

\* whether one click listener calls e.preventDefault() and window.open(url)
mutant_opensFresh(a) == FALSE

opensFresh(a) ==
  LET url == getFlutterUrl(routePathOf(a))
  IN url # linkHref(a) \/ ~startsWith(url, getFlutterBase)

\* a click on a processed anchor: its listeners run, then the default navigation
\* unless prevented; arg tells whether it was, ret is the location navigated to
clickLink(a) ==
  LET prevented == opensFresh(a)
  IN [op |-> "click",
      arg |-> IF prevented THEN "preventDefault" ELSE Null,
      ret |-> IF prevented THEN getFlutterUrl(routePathOf(a)) ELSE linkHref(a),
      threw |-> FALSE]

Click(i) ==
  /\ running = <<>>
  /\ i \in DOMAIN anchors
  /\ anchors[i].inDoc /\ anchors[i].handlers > 0
  /\ outcome' = clickLink(anchors[i])
  /\ UNCHANGED <<signals, localStorage, lmVars, envInputs, environmentRedirect, pageVars>>

\* ---- the link resolver on a page with fragments
NextLinks ==
  \/ ParseEnd
  \/ DOMContentLoaded
  \/ LanguageManagerScript
  \/ BootLanguageManager
  \/ LocalConfigScript
  \/ ConstructEnv
  \/ EnvSetup
  \/ \E event \in EnvEvents : EnvListener(event)
  \/ SetupFlutterLinks
  \/ LoaderScript
  \/ \E id \in Fragments : FetchFailed(id)
  \/ \E id \in Fragments : FragmentLoaded(id)
  \/ FooterLoaded
  \/ \E lang \in SupportedLanguages : SelectLanguage(lang)
  \/ DispatchLanguageChanged
  \/ \E i \in DOMAIN anchors : SetFlutterPath(i)
  \/ \E i \in DOMAIN anchors : Click(i)

\* a marked anchor as written in the page or in a fragment
Anchor(where, flutterPath, href, rel) ==
  [where |-> where, inDoc |-> where = "page", flutterPath |-> flutterPath, href |-> href,
   origHref |-> href, target |-> "", rel |-> rel, setup |-> FALSE, handlers |-> 0]

\* the marked anchors of a page and of its navbar fragment
MarkedAnchors ==
  LET plain == Anchor("page", Null, "/discover", <<"nofollow">>)
      routed == Anchor("navbar", "/discover", "#", <<>>)
  IN {<<>>, <<plain>>, <<routed>>, <<plain, routed>>}

\* a page being parsed, no script run yet
Parsing ==
  /\ environmentRedirect = [constructed |-> FALSE, currentEnvironment |-> Null,
                            rootDomain |-> Null]
  /\ NotStarted
  /\ navigator = [languages |-> <<"en-US">>, language |-> "en-US"]
  /\ timeZone = "Europe/Berlin"
  /\ documentLang = "en"
  /\ canonical = [present |-> FALSE, lang |-> Null]
  /\ elements = <<>>
  /\ search = [lang |-> Null, flutter_origin |-> Null, flutter_port |-> Null]
  /\ globalOrigin = Null
  /\ metaOrigin = Null
  /\ isSetup = FALSE
  /\ readyState = "loading"
  /\ scripts = {}
  /\ domListeners = <<>>
  /\ running = <<>>
  /\ loaderFlags = [navLoaded |-> FALSE, drawerLoaded |-> FALSE, mobileNavLoads |-> 0,
                    themeSelect |-> FALSE, languageSelect |-> FALSE]
  /\ timers = 0
  /\ dispatched = <<>>

\* A deployed or a local page with marked anchors of its own and in its fragments.
InitLinks ==
  /\ Parsing
  /\ \/ /\ location = [protocol |-> "https:", hostname |-> "denu.dev", port |-> ""]
        /\ localStorage = [language |-> Null, flutter_local_origin |-> Null]
     \/ /\ location = [protocol |-> "http:", hostname |-> "localhost", port |-> "8080"]
        /\ localStorage = [language |-> Null, flutter_local_origin |-> Null]
  /\ anchors \in MarkedAnchors
  /\ partials = [navbar |-> "idle", drawer |-> "absent", footer |-> "idle"]
  /\ theme = [stored |-> Null, attr |-> Null, prefersDark |-> FALSE]
  /\ markup = [navbar |-> <<>>, drawer |-> <<>>, footer |-> <<>>]

SpecLinks == InitLinks /\ [][NextLinks]_vars

\* ---- the fragment loader and the theme
NextLoader ==
  \/ ParseEnd
  \/ DOMContentLoaded
  \/ LanguageManagerScript
  \/ BootLanguageManager
  \/ LoaderScript
  \/ \E id \in Fragments : FetchFailed(id)
  \/ \E id \in Fragments : FragmentLoaded(id)
  \/ FooterLoaded
  \/ RetryTranslate
  \/ \E lang \in SupportedLanguages : SelectLanguage(lang)
  \/ \E val \in ThemeOptions : SelectTheme(val)
  \/ OSSchemeChange

\* the marked elements of the fragments: a navbar link with an icon, a drawer
\* link, the e-mail input of the footer, each showing its authored text
Fragment ==
  [navbar |-> <<[tagName |-> "A", type |-> Null, key |-> "nav.home", placeholder |-> Null,
                 childNodes |-> <<Icon, TextNode("Start")>>]>>,
   drawer |-> <<[tagName |-> "A", type |-> Null, key |-> "nav.home", placeholder |-> Null,
                 childNodes |-> <<TextNode("Start")>>]>>,
   footer |-> <<[tagName |-> "INPUT", type |-> "email", key |-> "contact.form.email",
                 placeholder |-> "E-mail", childNodes |-> <<>>]>>]

\* A deployed page with or without a drawer container, under every stored theme.
InitLoader ==
  /\ Parsing
  /\ location = [protocol |-> "https:", hostname |-> "denu.dev", port |-> ""]
  /\ localStorage \in [language : {Null, "fa"}, flutter_local_origin : {Null}]
  /\ anchors = <<>>
  /\ partials \in [navbar : {"idle"}, drawer : {"idle", "absent"}, footer : {"idle"}]
  /\ theme \in [stored : {Null, "light", "dark"}, attr : {Null}, prefersDark : BOOLEAN]
  /\ markup = Fragment

SpecLoader == InitLoader /\ [][NextLoader]_vars



\* ================================================================== claims

RECURSIVE concatText(_)
concatText(nodes) ==
  IF Len(nodes) = 0 THEN "" ELSE Head(nodes).text \o concatText(Tail(nodes))

\* element.textContent
textContent(el) == concatText(el.childNodes)

\* what a marked element shows: the placeholder of a text input, email input
\* or textarea, the text content (outer white space collapsed) of any other
showsPlaceholder(el) ==
  el.tagName = "TEXTAREA" \/ (el.tagName = "INPUT" /\ el.type \in {"text", "email"})

rendered(el) == IF showsPlaceholder(el) THEN el.placeholder ELSE trim(textContent(el))

hasIcon(el) == \E n \in DOMAIN el.childNodes : el.childNodes[n].kind = "icon"

\* C1: after setLanguage(L) for a supported language L, every element marked
\* with a key K of L's catalog renders exactly catalog[L][K], as placeholder
\* for text inputs, email inputs and textareas and as text content otherwise.
C1_SetLanguageRendersCatalog ==
  (outcome.op = "setLanguage" /\ outcome.arg \in SupportedLanguages) =>
    \A i \in DOMAIN elements :
      elements[i].key \in DOMAIN loadTranslations[outcome.arg] =>
        rendered(elements[i]) = loadTranslations[outcome.arg][elements[i].key]

C1_Witness ==
  /\ outcome.op = "setLanguage"
  /\ outcome.arg = "fa"
  /\ \E i, j \in DOMAIN elements :
       /\ elements[i].tagName = "INPUT" /\ elements[i].type = "email"
       /\ elements[i].key = "nav.home" /\ elements[i].placeholder = "khaneh"
       /\ hasIcon(elements[j]) /\ elements[j].key = "nav.home"
       /\ rendered(elements[j]) = "khaneh"

TranslationPass == Construct \/ TranslatePage \/ \E lang \in LanguageCodes : SetLanguage(lang)

SignalChain ==
  <<search.lang, localStorage.language>>
  \o [i \in DOMAIN navigator.languages |-> split(navigator.languages[i], "-")[1]]
  \o <<IF navigator.language = Null THEN Null ELSE split(navigator.language, "-")[1],
       IF timeZone = "Asia/Tehran" THEN "fa" ELSE Null,
       "en">>

FirstSupportedSignal ==
  LET named == {i \in DOMAIN SignalChain : SignalChain[i] \in SupportedLanguages}
  IN SignalChain[CHOOSE i \in named : \A j \in named : i <= j]

\* C3: the language computed at construction is the first signal of the
\* chain (URL parameter, persisted preference, browser list, browser
\* language, timezone, default) that names a supported language; signals
\* naming unsupported languages are skipped.
C3_ResolutionChain ==
  [][Construct => languageManager'.currentLanguage = FirstSupportedSignal]_vars

\* C4: getTranslation(K) returns the active catalog's entry for K when there
\* is one and K otherwise, and neither it nor the translation pass throws.
C4_LookupNeverThrows ==
  outcome.op \in {"getTranslation", "translatePage"} =>
    /\ ~outcome.threw
    /\ outcome.op = "getTranslation" =>
         outcome.ret =
           IF /\ languageManager.currentLanguage \in SupportedLanguages
              /\ outcome.arg \in DOMAIN loadTranslations[languageManager.currentLanguage]
           THEN loadTranslations[languageManager.currentLanguage][outcome.arg]
           ELSE outcome.arg

\* C5: a translation pass that directly follows a translation pass leaves
\* the child sequence, text and placeholder of every marked element as the
\* first pass left them.
C5_TranslationIdempotent ==
  [][((\/ outcome.op = "translatePage"
       \/ outcome.op = "setLanguage" /\ outcome.arg \in SupportedLanguages)
      /\ TranslatePage) => elements' = elements]_vars

C5_Witness ==
  /\ outcome.op = "translatePage"
  /\ ~outcome.threw
  /\ \E i, j \in DOMAIN elements :
       /\ elements[i].childNodes = <<Icon, Icon, TextNode("Home")>>
       /\ elements[j].tagName = "TEXTAREA" /\ elements[j].placeholder = "Home"

\* C6: setLanguage(L) for a supported L makes L the active language, the
\* persisted value and the document language, and gives the canonical link
\* lang=L, or no lang parameter for en; for an unsupported code it changes
\* none of these nor the rendered text.
C6_SetLanguageEffects ==
  [][\A code \in LanguageCodes :
       SetLanguage(code) =>
         IF code \in SupportedLanguages
         THEN /\ languageManager'.currentLanguage = code
              /\ localStorage'.language = code
              /\ documentLang' = code
              /\ canonical.present =>
                   canonical'.lang = IF code = "en" THEN Null ELSE code
         ELSE UNCHANGED <<languageManager, localStorage, documentLang, canonical, elements>>]_vars

\* the dot-separated labels of the page's hostname
Labels == split(location.hostname, ".")

LastTwoLabels ==
  IF Len(Labels) <= 2 THEN location.hostname
  ELSE Labels[Len(Labels) - 1] \o "." \o Labels[Len(Labels)]

EnvironmentLabel ==
  IF Len(Labels) >= 2 /\ Labels[1] \in {"dev", "qa", "uat"} THEN Labels[1] ELSE "prod"

CompanionBase(root) ==
  "https://" \o (IF EnvironmentLabel = "prod" THEN "" ELSE EnvironmentLabel \o ".")
             \o "app." \o root

\* C7 as stated: for every non-local hostname the environment is the leading
\* dev, qa or uat label and prod otherwise, the root domain is the last two
\* labels, and the base URL is https://<prefix>app.<root-domain>.
C7_DeployedBaseLastTwoLabels ==
  (outcome.op = "getFlutterBase" /\ location.hostname \notin LocalHostnames) =>
    /\ environmentRedirect.currentEnvironment = EnvironmentLabel
    /\ environmentRedirect.rootDomain = LastTwoLabels
    /\ outcome.ret = CompanionBase(LastTwoLabels)

IsBareIPv4 == Len(Labels) = 4 /\ \A i \in 1..4 : allDigits(Labels[i])

\* C7 amended: as stated, except that a hostname that is a bare IPv4 address
\* is its own root domain.
C7_DeployedBase ==
  (outcome.op = "getFlutterBase" /\ location.hostname \notin LocalHostnames) =>
    LET root == IF IsBareIPv4 THEN location.hostname ELSE LastTwoLabels
    IN /\ environmentRedirect.currentEnvironment = EnvironmentLabel
       /\ environmentRedirect.rootDomain = root
       /\ outcome.ret = CompanionBase(root)

C7_Witness ==
  /\ outcome.op = "getFlutterBase"
  /\ location.hostname = "dev.denu.dev"
  /\ environmentRedirect.currentEnvironment = "dev"
  /\ environmentRedirect.rootDomain = "denu.dev"
  /\ outcome.ret = "https://dev.app.denu.dev"

Overrides ==
  <<globalOrigin, localStorage.flutter_local_origin, metaOrigin, search.flutter_origin,
    search.flutter_port>>

Present(v) == v \notin {Null, ""}

SameOrigin ==
  location.protocol \o "//" \o location.hostname
    \o (IF location.port = "" THEN "" ELSE ":" \o location.port)

\* C8: in the local environment with no override present, getFlutterBase
\* returns the page's own origin for every port, and does not throw.
C8_LocalSameOrigin ==
  (/\ outcome.op = "getFlutterBase"
   /\ location.hostname \in LocalHostnames
   /\ \A i \in DOMAIN Overrides : ~Present(Overrides[i])) =>
    outcome.ret = SameOrigin /\ ~outcome.threw

C8_Witness ==
  /\ outcome.op = "getFlutterBase"
  /\ location = [protocol |-> "http:", hostname |-> "localhost", port |-> "3000"]
  /\ \A i \in DOMAIN Overrides : ~Present(Overrides[i])
  /\ outcome.ret = "http://localhost:3000"

\* the base URL each override yields, in priority order
OverrideOrigins ==
  <<globalOrigin, localStorage.flutter_local_origin, metaOrigin, search.flutter_origin,
    location.protocol \o "//localhost:" \o search.flutter_port>>

\* C9: in the local environment the base URL is the one of the first present
\* override in the order global, persisted, meta tag, flutter_origin,
\* flutter_port; a lower-priority override never wins over a present
\* higher-priority one.
C9_OverridePrecedence ==
  (outcome.op = "getFlutterBase" /\ location.hostname \in LocalHostnames) =>
    \A i \in DOMAIN Overrides :
      (Present(Overrides[i]) /\ \A j \in 1..(i - 1) : ~Present(Overrides[j])) =>
        outcome.ret = OverrideOrigins[i]

C9_Witness ==
  /\ outcome.op = "getFlutterBase"
  /\ location.hostname = "localhost"
  /\ ~Present(globalOrigin)
  /\ Present(localStorage.flutter_local_origin)
  /\ Present(metaOrigin) /\ Present(search.flutter_origin) /\ Present(search.flutter_port)
  /\ outcome.ret = "http://localhost:55425"

\* the language the link resolver takes as active
ActiveLanguage ==
  IF languageManager.constructed THEN languageManager.currentLanguage
  ELSE IF Present(search.lang) THEN search.lang
  ELSE IF Present(localStorage.language) THEN localStorage.language
  ELSE "en"

\* C10: getFlutterUrl(P) is base + P, with a leading slash added when P lacks
\* one and "/" for an empty P, followed by lang=L exactly when the active
\* language L is not en, after "&" when the URL already has a query and after
\* "?" otherwise.
C10_FlutterUrl ==
  outcome.op = "getFlutterUrl" =>
    LET P == outcome.arg
        path == IF ~Present(P) THEN "/"
                ELSE IF SubSeq(P, 1, 1) = "/" THEN P ELSE "/" \o P
        plain == getFlutterBase \o path
    IN outcome.ret =
         IF ActiveLanguage = "en" THEN plain
         ELSE IF \E i \in 1..Len(plain) : SubSeq(plain, i, i) = "?"
           THEN plain \o "&lang=" \o ActiveLanguage
         ELSE plain \o "?lang=" \o ActiveLanguage

C10_Witness ==
  /\ outcome.op = "getFlutterUrl"
  /\ outcome.arg = "/discover"
  /\ languageManager.constructed
  /\ languageManager.currentLanguage = "fa"
  /\ location.hostname = "dev.denu.dev"
  /\ outcome.ret = "https://dev.app.denu.dev/discover?lang=fa"

\* ------------------------------------------------------------ marked anchors
\* the target path an anchor was written with: its data-flutter-path, else the
\* href of its markup, else the root
TargetPath(a) ==
  IF Truthy(a.flutterPath) THEN a.flutterPath
  ELSE IF Truthy(a.origHref) THEN a.origHref
  ELSE "/"

InDocument == {i \in DOMAIN anchors : anchors[i].inDoc}
Processed == {i \in InDocument : anchors[i].setup}

\* the steps of the resolver, told by the operation the step records:
\* a direct call of setupFlutterLinks,
DirectScan == outcome'.op = "setupFlutterLinks"
\* the scans of the constructor, of DOMContentLoaded and of partialsLoaded,
ListenerScan ==
  outcome'.op \in {"setupListeners", "partialsLoaded", "DOMContentLoaded:environmentRedirect"}
\* and any step that scans or refreshes the anchors
LinkStep == DirectScan \/ ListenerScan \/ outcome'.op = "languageChanged"

\* C11 (as stated): whenever setupFlutterLinks is invoked, every marked anchor
\* of the document carries the processed marker and a rewritten destination
\* when it returns.
C11_SetupRewritesAll ==
  [][DirectScan =>
       \A i \in InDocument :
         anchors'[i].setup /\ anchors'[i].href # anchors'[i].origHref]_vars

\* C11 (amended): invoked with isSetup false, setupFlutterLinks rewrites every
\* unprocessed marked anchor of the document to getFlutterUrl of its target
\* path and marks it, and every listener of the resolver that scans leaves all
\* marked anchors of the document marked; invoked with isSetup true it returns
\* without touching any anchor.
C11_SetupRewritesUnlessSetup ==
  [][/\ DirectScan =>
          IF isSetup THEN anchors' = anchors
          ELSE \A i \in InDocument :
                 /\ anchors'[i].setup
                 /\ ~anchors[i].setup =>
                      anchors'[i].href = getFlutterUrl(TargetPath(anchors[i]))
     /\ ListenerScan =>
          \A i \in InDocument : anchors'[i].setup]_vars

\* a direct call has processed the anchor the navbar brought, no listener having
\* found any before
C11_Witness ==
  /\ outcome.op = "setupFlutterLinks"
  /\ isSetup
  /\ dispatched = <<>>
  /\ Len(anchors) = 1
  /\ anchors[1].where = "navbar" /\ anchors[1].setup /\ anchors[1].handlers = 1
  /\ anchors[1].href = "https://app.denu.dev/discover"

\* a processed anchor whose destination is the one for its target path under
\* the current base and language
UpToDate(a) == a.href = getFlutterUrl(TargetPath(a))

\* C12: a scan that is not the one of a partialsLoaded notification (a direct
\* setupFlutterLinks, the DOMContentLoaded listener, the scans of the
\* constructor) leaves the destination, target, rel and click handlers of every
\* processed, up-to-date anchor unchanged.
C12_RescanIdempotent ==
  [][(DirectScan \/ (ListenerScan /\ outcome'.op # "partialsLoaded")) =>
       \A i \in Processed :
         UpToDate(anchors[i]) =>
           /\ anchors'[i].href = anchors[i].href
           /\ anchors'[i].target = anchors[i].target
           /\ anchors'[i].rel = anchors[i].rel
           /\ anchors'[i].handlers = anchors[i].handlers]_vars

\* C13: the partialsLoaded listener clears and reapplies the marker of every
\* processed anchor (it is rewritten once more and gains a click listener), and
\* an anchor carrying data-flutter-path ends at getFlutterUrl of its current
\* path.
C13_PartialsLoadedReprocesses ==
  [][outcome'.op = "partialsLoaded" =>
       \A i \in Processed :
         /\ anchors'[i].setup
         /\ anchors'[i].handlers = anchors[i].handlers + 1
         /\ Truthy(anchors[i].flutterPath) =>
              anchors'[i].href = getFlutterUrl(anchors[i].flutterPath)]_vars

\* the navbar anchor, its path changed after its first rewrite, rewritten by
\* the listener
C13_Witness ==
  /\ outcome.op = "partialsLoaded"
  /\ \E i \in DOMAIN anchors :
       /\ anchors[i].flutterPath = NewPath
       /\ anchors[i].setup
       /\ anchors[i].handlers = 2
       /\ anchors[i].href = "https://app.denu.dev/places"

\* C14: the languageChanged listener sets the destination of every processed
\* anchor to the one of its target path under the current language, leaves its
\* marker set, and leaves every other anchor as it was.
C14_LanguageChangedRefreshes ==
  [][outcome'.op = "languageChanged" =>
       \A i \in DOMAIN anchors :
         IF i \in Processed
         THEN /\ anchors'[i].setup
              /\ anchors'[i].href = getFlutterUrl(TargetPath(anchors[i]))
         ELSE anchors'[i] = anchors[i]]_vars

\* C15: a marked anchor without data-flutter-path, written with destination P,
\* has destination getFlutterUrl(P) after its first rewrite and after every
\* later scan, refresh or partialsLoaded notification under the same base and
\* language.
C15_FallbackDestinationStable ==
  [][LinkStep =>
       \A i \in InDocument :
         (/\ ~Truthy(anchors[i].flutterPath)
          /\ anchors'[i].setup
          /\ ~anchors[i].setup \/ UpToDate(anchors[i])) =>
           anchors'[i].href = getFlutterUrl(anchors[i].origHref)]_vars

\* the anchors a step has rewritten: each gained a click listener
Rewritten == {i \in InDocument : anchors'[i].handlers = anchors[i].handlers + 1}

\* host of a URL: hostname and port
HostOf(url) ==
  LET u == parseUrl(url)
  IN IF u.port = "" THEN u.hostname ELSE u.hostname \o ":" \o u.port

PageHost ==
  IF location.port = "" THEN location.hostname
  ELSE location.hostname \o ":" \o location.port

\* C16 (as stated): a rewrite gives the anchor target _blank and rel noopener
\* when the host of its destination differs from the host of the page, and
\* leaves target and rel alone otherwise.
C16_HostDecidesTarget ==
  [][LinkStep =>
       \A i \in Rewritten :
         IF HostOf(anchors'[i].href) # PageHost
         THEN /\ anchors'[i].target = "_blank"
              /\ \E k \in DOMAIN anchors'[i].rel : anchors'[i].rel[k] = "noopener"
         ELSE /\ anchors'[i].target = anchors[i].target
              /\ anchors'[i].rel = anchors[i].rel]_vars

\* C16 (amended): the comparison is between hostnames, ports left out; when
\* they are equal the anchor keeps the target and rel it had before the pass.
C16_HostnameDecidesTarget ==
  [][LinkStep =>
       \A i \in Rewritten :
         IF parseUrl(anchors'[i].href).hostname # location.hostname
         THEN /\ anchors'[i].target = "_blank"
              /\ \E k \in DOMAIN anchors'[i].rel : anchors'[i].rel[k] = "noopener"
         ELSE /\ anchors'[i].target = anchors[i].target
              /\ anchors'[i].rel = anchors[i].rel]_vars

\* on the deployed page the anchor with rel nofollow opens the companion
\* application in a new context; on the local page an anchor keeps its target
C16_Witness ==
  \E i \in DOMAIN anchors :
    /\ anchors[i].setup
    /\ \/ /\ location.hostname = "denu.dev"
          /\ anchors[i].target = "_blank"
          /\ anchors[i].rel = <<"nofollow", "noopener">>
       \/ /\ location.hostname = "localhost"
          /\ globalOrigin = "http://localhost:56899"
          /\ anchors[i].href = "http://localhost:56899/discover"
          /\ anchors[i].target = ""
          /\ anchors[i].rel = <<>>

\* C17: a click recomputes the destination from the anchor's current
\* attributes, the active language and the overrides; it cancels the default
\* navigation and opens the fresh URL exactly when that URL differs from the
\* anchor's destination or does not start with the current base, and in both
\* cases the location navigated to is the fresh URL.  (A click changes neither
\* the anchors nor the language nor the overrides, so the state after it tells
\* what the click computed from.)
C17_ClickNavigatesFresh ==
  outcome.op = "click" =>
    \E i \in DOMAIN anchors :
      /\ anchors[i].inDoc /\ anchors[i].handlers > 0
      /\ LET a == anchors[i]
             path == IF Truthy(a.flutterPath) THEN a.flutterPath
                     ELSE IF Truthy(a.href) THEN a.href ELSE "/"
             fresh == getFlutterUrl(path)
             stale == fresh # linkHref(a) \/ ~startsWith(fresh, getFlutterBase)
         IN /\ outcome.arg = IF stale THEN "preventDefault" ELSE Null
            /\ outcome.ret = fresh

\* the language was set to fa after the rewrite: the click opens the URL with
\* lang=fa, the anchor still pointing to the one without
C17_Witness ==
  /\ outcome.op = "click"
  /\ outcome.arg = "preventDefault"
  /\ outcome.ret = "https://app.denu.dev/discover?lang=fa"
  /\ \E i \in DOMAIN anchors : anchors[i].href = "https://app.denu.dev/discover"

\* ------------------------------------------------------- fragments and theme
\* C18: once partialsLoaded has been dispatched, the navbar, the footer and the
\* drawer of a page that has a drawer container have been injected.
C18_PartialsLoadedAfterAll ==
  Count(dispatched, "partialsLoaded") > 0 =>
    /\ partials.navbar = "loaded"
    /\ partials.footer = "loaded"
    /\ partials.drawer \in {"loaded", "absent"}

\* C19: once the theme is initialised, data-theme is light or dark: the stored
\* preference when there is one (an OS scheme change then leaves it alone), the
\* OS preference otherwise.
C19_ThemeResolved ==
  "partials-loader.js" \in scripts =>
    /\ theme.attr \in {"light", "dark"}
    /\ theme.attr = IF theme.stored # Null THEN theme.stored
                    ELSE IF theme.prefersDark THEN "dark" ELSE "light"

\* the OS scheme has just changed to light while dark is stored
C19_Witness ==
  /\ outcome.op = "prefers-color-scheme"
  /\ loaderFlags.themeSelect
  /\ theme = [stored |-> "dark", attr |-> "dark", prefersDark |-> FALSE]

RECURSIVE Occurs(_, _)
\* whether the string t occurs in s
Occurs(t, s) ==
  /\ Len(s) >= Len(t)
  /\ \/ SubSeq(s, 1, Len(t)) = t
     \/ Occurs(t, SubSeq(s, 2, Len(s)))

\* a destination carrying lang=L for L other than en, no lang parameter for en
CarriesLanguage(url, L) ==
  IF L = "en" THEN ~Occurs("lang=", url)
  ELSE /\ Len(url) >= Len(L) + 5
       /\ SubSeq(url, Len(url) - Len(L) - 4, Len(url)) = "lang=" \o L

\* C20: when a setLanguage(L) that changes the active language has completed,
\* the resolver has been notified: every processed anchor carries lang=L in its
\* destination (no lang parameter for en).
C20_SetLanguageRefreshesLinks ==
  [][\A L \in SupportedLanguages :
       (/\ outcome'.op = "setLanguage" /\ outcome'.arg = L
        /\ languageManager'.currentLanguage # languageManager.currentLanguage) =>
         \A i \in Processed : CarriesLanguage(anchors'[i].href, L)]_vars

\* C23: mobile-nav.js is requested only when both flags are set; it has been
\* requested exactly once when the navbar and the drawer (or no drawer
\* container) are in, whatever the order, and never otherwise.
C23_MobileNavOnce ==
  /\ loaderFlags.mobileNavLoads > 0 => loaderFlags.navLoaded /\ loaderFlags.drawerLoaded
  /\ loaderFlags.mobileNavLoads =
       IF partials.navbar = "loaded" /\ partials.drawer \in {"loaded", "absent"}
       THEN 1 ELSE 0

\* the drawer came first, then the navbar
C23_Witness ==
  /\ outcome.op = "loadPartial" /\ outcome.arg = "navbar"
  /\ partials.drawer = "loaded"
  /\ loaderFlags.mobileNavLoads = 1

\* C25: every processed anchor has exactly one click listener, an unprocessed
\* one none.
C25_OneClickHandler ==
  \A i \in DOMAIN anchors :
    anchors[i].handlers = IF anchors[i].setup THEN 1 ELSE 0

\* ---------------------------------------------------- overrides when deployed
\* the companion base of each deployed hostname
HostBase ==
  [h \in DeployedHostnames |->
     CASE h \in {"denu.dev", "www.denu.dev", "developer.denu.dev"} -> "https://app.denu.dev"
       [] h \in {"dev.denu.dev", "dev.www.denu.dev"} -> "https://dev.app.denu.dev"
       [] h = "qa.denu.dev" -> "https://qa.app.denu.dev"
       [] h = "uat.denu.dev" -> "https://uat.app.denu.dev"
       [] h = "uat.denu.co.uk" -> "https://uat.app.co.uk"
       [] h = "dev.dev" -> "https://dev.app.dev.dev"
       [] h = "intranet" -> "https://app.intranet"
       [] h = "192.168.1.5" -> "https://app.192.168.1.5"
       [] h = "127.0.0.2" -> "https://app.127.0.0.2"]

\* the destination of route path P under a base and a language
Destination(base, P, L) ==
  LET route == IF P \in {Null, ""} THEN "/"
               ELSE IF SubSeq(P, 1, 1) = "/" THEN P ELSE "/" \o P
      query == IF L = "en" THEN ""
               ELSE (IF Occurs("?", base \o route) THEN "&" ELSE "?") \o "lang=" \o L
  IN base \o route \o query

\* C26: on a deployed hostname the base URL and the destinations are those of
\* the hostname, whatever window.FLUTTER_LOCAL_ORIGIN, the stored override,
\* the meta tag and the flutter_origin / flutter_port parameters hold.
C26_OverridesIgnoredWhenDeployed ==
  location.hostname \in DeployedHostnames =>
    /\ outcome.op = "getFlutterBase" => outcome.ret = HostBase[location.hostname]
    /\ outcome.op = "getFlutterUrl" =>
         outcome.ret = Destination(HostBase[location.hostname], outcome.arg, ActiveLanguage)

\* every override set on qa.denu.dev, the base still the deployed one
C26_Witness ==
  /\ outcome.op = "getFlutterBase"
  /\ location.hostname = "qa.denu.dev"
  /\ \A i \in DOMAIN Overrides : Present(Overrides[i])
  /\ outcome.ret = "https://qa.app.denu.dev"

\* C24: with the footer injected and the LanguageManager constructed, in
\* whichever order, changing #footerLanguageSelect to a supported language L
\* makes L the active language.
C24_FooterSelectorSetsLanguage ==
  [][\A L \in SupportedLanguages :
       (/\ partials.footer = "loaded"
        /\ languageManager.constructed
        /\ outcome'.op \in {"setLanguage", "change"}
        /\ outcome'.arg = L) =>
         languageManager'.currentLanguage = L]_vars

\* every script has run, the document is complete, every fetch has ended and
\* no listener is left to run
Settled ==
  /\ environmentRedirect.constructed
  /\ "partials-loader.js" \in scripts
  /\ readyState = "complete"
  /\ running = <<>>
  /\ \A id \in Fragments : partials[id] # "pending"

\* C21: once the page has settled, every marked anchor of an injected fragment
\* carries the processed marker and a destination of the companion
\* application, whatever the order of the fetches and of DOMContentLoaded and
\* whichever other fetch failed.
C21_InjectedAnchorsRewritten ==
  Settled =>
    \A i \in DOMAIN anchors :
      (anchors[i].inDoc /\ anchors[i].where # "page") =>
        /\ anchors[i].setup
        /\ startsWith(anchors[i].href, "https://app.denu.dev/")
           \/ startsWith(anchors[i].href, "http://localhost:")

\* the marked elements of the document whose key the active catalog has
Translatable ==
  {i \in DOMAIN elements :
     elements[i].key \in DOMAIN loadTranslations[languageManager.currentLanguage]}

ShowsCatalog(i) ==
  rendered(elements[i]) = loadTranslations[languageManager.currentLanguage][elements[i].key]

\* C22: under every interleaving of the construction of the manager and the
\* completions of the fragment fetches, once the manager exists (with a
\* supported language) every marked element of an injected fragment shows
\* the string of the active catalog, also when the fragment arrived and its
\* one 100 ms retry fired before the manager existed.
C22_InjectedElementsTranslated ==
  (languageManager.constructed /\ languageManager.currentLanguage \in SupportedLanguages) =>
    \A i \in Translatable : ShowsCatalog(i)

\* the first of the two bootstrap listeners has just constructed the manager;
\* the navbar was injected and its retry fired while there was none
C22_Witness ==
  /\ outcome.op = "constructor"
  /\ Len(running) = 1
  /\ timers = 0
  /\ partials.navbar = "loaded"
  /\ languageManager.currentLanguage = "fa"
  /\ Translatable # {}
  /\ \A i \in Translatable : ShowsCatalog(i)

====
